---- MODULE Spec2Model ----
(***************************************************************************)
(* A model of spielrs-diff: dir_diff / file_diff (src/src/lib.rs) and the  *)
(* TreeBuilder implementation for Tree (src/src/tree.rs).                  *)
(*                                                                         *)
(* The filesystem is a function from root directory names to forests of    *)
(* entries; the order of a forest is the order read_dir lists the          *)
(* directory in.  Every directory of the modelled filesystems can be       *)
(* listed; a file may be unreadable (read_to_string fails on it).          *)
(***************************************************************************)
EXTENDS Integers, Sequences, FiniteSets, TLC

\* ---------------------------------------------------------------- bounds
MaxNodes == 2        \* entries under one root directory (dir_diff runs)
MaxExclNodes == 3    \* entries under the first root (exclusion runs)
MaxTreeNodes == 3    \* entries of a Vec<Tree> handed to tree_diff
MaxFlatNodes == 3    \* entries under the root (get_content_files runs)
MaxLen == 3          \* length of a content vector (compare_dir_content runs)

Names == {"X", "a"}
Contents == {"hello", "world"}
ContentPool == {"hello", "world", "rust"}
Roots == {"one", "two"}

\* ------------------------------------------------------------ Option<T>
None == [some |-> FALSE, list |-> <<>>]
Some(l) == [some |-> TRUE, list |-> l]

\* ------------------------------------------------------ the filesystem
FileNode(n, c, r) ==
    [name |-> n, dir |-> FALSE, entries |-> <<>>, content |-> c, readable |-> r]
DirNode(n, es) ==
    [name |-> n, dir |-> TRUE, entries |-> es, content |-> "", readable |-> FALSE]

Files ==
    {FileNode(n, c, TRUE) : n \in Names, c \in Contents}
        \cup {FileNode(n, "", FALSE) : n \in Names}

RECURSIVE ForestsOfSize(_)
RECURSIVE NodesOfSize(_)
\* the entries with exactly n nodes (the entry and everything below it)
NodesOfSize(n) ==
    (IF n = 1 THEN Files ELSE {})
        \cup {DirNode(nm, es) : nm \in Names, es \in ForestsOfSize(n - 1)}
\* the listings with exactly n nodes; names are unique within a directory
ForestsOfSize(n) ==
    IF n = 0 THEN {<<>>}
    ELSE UNION {
        {<<p[1]>> \o p[2] :
            p \in {q \in NodesOfSize(k) \X ForestsOfSize(n - k) :
                     \A i \in 1..Len(q[2]) : q[2][i].name /= q[1].name}}
        : k \in 1..n}
Forests(max) == UNION {ForestsOfSize(n) : n \in 0..max}

RECURSIVE Lookup(_, _)
\* the entry a relative path names below a listing, as an Option
Lookup(es, rel) ==
    IF rel = <<>> THEN None
    ELSE LET hit == {i \in 1..Len(es) : es[i].name = Head(rel)}
         IN  IF hit = {} THEN None
             ELSE LET e == es[CHOOSE i \in hit : TRUE]
                  IN  IF Len(rel) = 1 THEN Some(<<e>>)
                      ELSE IF e.dir THEN Lookup(e.entries, Tail(rel))
                      ELSE None

\* fs::read_dir(path) followed by next_entry() until None: the listing
read_dir(fs, path) ==
    IF Len(path) = 1 THEN fs[path[1]]
    ELSE Lookup(fs[path[1]], Tail(path)).list[1].entries

\* entry.path().is_dir()
is_dir(fs, path) ==
    LET f == Lookup(fs[path[1]], Tail(path)) IN f.some /\ f.list[1].dir

\* fs::read_to_string(path): [ok |-> TRUE, val |-> text] or [ok |-> FALSE]
read_to_string(fs, path) ==
    LET f == IF Len(path) <= 1 THEN None ELSE Lookup(fs[path[1]], Tail(path))
    IN  IF f.some /\ ~f.list[1].dir /\ f.list[1].readable
        THEN [ok |-> TRUE, val |-> f.list[1].content]
        ELSE [ok |-> FALSE, val |-> ""]

\* ----------------------------------------------------------- tree.rs
Contains(seq, x) == \E i \in 1..Len(seq) : seq[i] = x

RECURSIVE build_tree(_, _, _, _)
RECURSIVE build_entries(_, _, _, _, _)
RECURSIVE build_entries_same_set(_, _, _, _, _)
\* build_entries handing the exclusion set down whatever recursive_excluding says
build_entries_same_set(fs, dir_path, exclude, recursive_excluding, i) ==
    LET entries == read_dir(fs, dir_path) IN
    IF i > Len(entries) THEN <<>>
    ELSE LET file_name == entries[i].name
             path == Append(dir_path, file_name)
             rest == build_entries_same_set(fs, dir_path, exclude,
                                            recursive_excluding, i + 1)
         IN  IF ~Contains(exclude, file_name)
             THEN <<[name |-> file_name,
                     path |-> path,
                     subdir |->
                        IF is_dir(fs, path)
                        THEN Some(build_tree(fs, path, Some(exclude),
                                             recursive_excluding))
                        ELSE None]>> \o rest
             ELSE rest

\* the while loop of build_tree over the listing, from entry i on
build_entries(fs, dir_path, exclude, recursive_excluding, i) ==
    LET entries == read_dir(fs, dir_path) IN
    IF i > Len(entries) THEN <<>>
    ELSE LET file_name == entries[i].name
             path == Append(dir_path, file_name)
             rest == build_entries(fs, dir_path, exclude, recursive_excluding, i + 1)
         IN  IF ~Contains(exclude, file_name)
             THEN <<[name |-> file_name,
                     path |-> path,
                     subdir |->
                        IF is_dir(fs, path)
                        THEN Some(build_tree(fs, path,
                                    IF recursive_excluding THEN Some(exclude) ELSE None,
                                    recursive_excluding))
                        ELSE None]>> \o rest
             ELSE rest

build_tree(fs, dir_path, excluding, recursive_excluding) ==
    LET exclude == IF excluding.some THEN excluding.list ELSE <<>>
    IN  build_entries(fs, dir_path, exclude, recursive_excluding, 1)

RECURSIVE from_iter_files_first(_)
RECURSIVE flatten_dirs(_)
flatten_dirs(dirs) ==
    IF dirs = <<>> THEN <<>>
    ELSE from_iter_files_first(Head(dirs).subdir.list) \o flatten_dirs(Tail(dirs))
\* from_iter emitting the files of a listing before the files of its directories
from_iter_files_first(iter) ==
    LET files == SelectSeq(iter, LAMBDA t : ~t.subdir.some)
        dirs == SelectSeq(iter, LAMBDA t : t.subdir.some)
    IN  [k \in 1..Len(files) |-> [name |-> files[k].name, path |-> files[k].path]]
            \o flatten_dirs(dirs)

RECURSIVE from_iter(_)
\* TreeFlatted::from_iter: the ExtratedFile of every file entry, depth first
from_iter(iter) ==
    IF iter = <<>> THEN <<>>
    ELSE LET i == Head(iter)
         IN  (IF i.subdir.some
              THEN from_iter(i.subdir.list)
              ELSE <<[name |-> i.name, path |-> i.path]>>)
             \o from_iter(Tail(iter))

RECURSIVE TreeComp_from(_)
\* From<Tree> for TreeComp: the path is dropped, recursively
TreeComp_from(tree) ==
    [name |-> tree.name,
     subdir |->
        IF tree.subdir.some
        THEN Some([k \in 1..Len(tree.subdir.list) |-> TreeComp_from(tree.subdir.list[k])])
        ELSE None]

RECURSIVE TreeComp_eq(_, _)
RECURSIVE VecTreeComp_eq(_, _)
\* #[derive(PartialEq)] on TreeComp: name, then Option<Vec<TreeComp>>
TreeComp_eq(a, b) ==
    /\ a.name = b.name
    /\ IF a.subdir.some /\ b.subdir.some
       THEN VecTreeComp_eq(a.subdir.list, b.subdir.list)
       ELSE ~a.subdir.some /\ ~b.subdir.some
\* PartialEq of Vec<TreeComp>: same length and equal at every index
VecTreeComp_eq(va, vb) ==
    /\ Len(va) = Len(vb)
    /\ \A k \in 1..Len(va) : TreeComp_eq(va[k], vb[k])

\* tree_diff comparing the Tree values themselves, path included
tree_diff_with_path(dir_tree, dir_tree_comp) == dir_tree /= dir_tree_comp

tree_diff(dir_tree, dir_tree_comp) ==
    LET dir_tree_from == [k \in 1..Len(dir_tree) |-> TreeComp_from(dir_tree[k])]
        dir_tree_comp_from ==
            [k \in 1..Len(dir_tree_comp) |-> TreeComp_from(dir_tree_comp[k])]
    IN  ~VecTreeComp_eq(dir_tree_from, dir_tree_comp_from)

RECURSIVE any_eq(_, _, _)
\* .into_iter().any(|content_comp| content_comp == content), from index j
any_eq(dir_content_comp, content, j) ==
    IF j > Len(dir_content_comp) THEN FALSE
    ELSE IF dir_content_comp[j] = content THEN TRUE
    ELSE any_eq(dir_content_comp, content, j + 1)

RECURSIVE all_any(_, _, _)
\* .into_iter().all(|content| ...), from index i
all_any(dir_content, dir_content_comp, i) ==
    IF i > Len(dir_content) THEN TRUE
    ELSE IF ~any_eq(dir_content_comp, dir_content[i], 1) THEN FALSE
    ELSE all_any(dir_content, dir_content_comp, i + 1)

\* compare_dir_content testing containment in both directions
compare_dir_content_both_ways(dir_content, dir_content_comp) ==
    /\ all_any(dir_content, dir_content_comp, 1)
    /\ all_any(dir_content_comp, dir_content, 1)

\* compare_dir_content comparing the two vectors index by index
compare_dir_content_pairwise(dir_content, dir_content_comp) ==
    dir_content = dir_content_comp

compare_dir_content(dir_content, dir_content_comp) ==
    all_any(dir_content, dir_content_comp, 1)

RECURSIVE read_files_skip_unreadable(_, _, _)
\* read_files taking the text of a file it cannot read to be empty
read_files_skip_unreadable(fs, file_list, i) ==
    IF i > Len(file_list) THEN [ok |-> TRUE, val |-> <<>>, reads |-> <<>>]
    ELSE LET r == read_to_string(fs, file_list[i].path)
             rest == read_files_skip_unreadable(fs, file_list, i + 1)
         IN  [ok |-> TRUE,
              val |-> <<r.val>> \o rest.val,
              reads |-> <<file_list[i].path>> \o rest.reads]

RECURSIVE read_files(_, _, _)
\* the stream of get_content_files: one read_to_string(..).unwrap() after the
\* other, in the order of the list; the first failure panics
read_files(fs, file_list, i) ==
    IF i > Len(file_list) THEN [ok |-> TRUE, val |-> <<>>, reads |-> <<>>]
    ELSE LET r == read_to_string(fs, file_list[i].path)
         IN  IF ~r.ok
             THEN [ok |-> FALSE, val |-> <<>>, reads |-> <<file_list[i].path>>]
             ELSE LET rest == read_files(fs, file_list, i + 1)
                  IN  [ok |-> rest.ok,
                       val |-> IF rest.ok THEN <<r.val>> \o rest.val ELSE <<>>,
                       reads |-> <<file_list[i].path>> \o rest.reads]

get_content_files(fs, dir_tree) ==
    LET file_list == from_iter(dir_tree)
    IN  read_files(fs, file_list, 1)


\* ------------------------------------------------------------- state
VARIABLES
    fsys,               \* the filesystem: root directory name -> listing
    pc,                 \* the position of the running call
    outcome,            \* "running", "true", "false" or "panic" (an unwrap failed)
    reads,              \* the paths handed to read_to_string so far, in order
    dir_diff_options,   \* DirDiff { dir, dir_comp, excluding, recursive_excluding }
    tree_one, tree_two,
    content_one, content_two,
    file_diff_options,  \* FileDiff { file, file_comp }
    file_one, file_two,
    dir_tree, dir_tree_comp,        \* arguments of tree_diff / get_content_files
    file_list, file_content,        \* locals of get_content_files
    dir_content, dir_content_comp   \* arguments of compare_dir_content

vars == <<fsys, pc, outcome, reads, dir_diff_options, tree_one, tree_two,
          content_one, content_two, file_diff_options, file_one, file_two,
          dir_tree, dir_tree_comp, file_list, file_content,
          dir_content, dir_content_comp>>

dirVars == <<dir_diff_options, tree_one, tree_two, content_one, content_two>>
fileVars == <<file_diff_options, file_one, file_two>>
treeVars == <<dir_tree, dir_tree_comp, file_list, file_content>>
contentVars == <<dir_content, dir_content_comp>>

NoDirDiff ==
    /\ dir_diff_options = [dir |-> "", dir_comp |-> "", excluding |-> None,
                           recursive_excluding |-> FALSE]
    /\ tree_one = <<>> /\ tree_two = <<>>
    /\ content_one = <<>> /\ content_two = <<>>
NoFileDiff ==
    /\ file_diff_options = [file |-> <<>>, file_comp |-> <<>>]
    /\ file_one = "" /\ file_two = ""
NoTree ==
    /\ dir_tree = <<>> /\ dir_tree_comp = <<>>
    /\ file_list = <<>> /\ file_content = <<>>
NoContent ==
    /\ dir_content = <<>> /\ dir_content_comp = <<>>

Bool(b) == IF b THEN "true" ELSE "false"

\* ------------------------------------------------- lib.rs: dir_diff
\* a call dir_diff(DirDiff {..}) on a filesystem holding the directories
\* "one" and "two"; dir_comp may name the directory dir names
InitDirDiff ==
    /\ \E a \in Forests(MaxNodes), dc \in Roots :
         \E b \in (IF dc = "one" THEN {<<>>} ELSE Forests(MaxNodes)) :
           /\ fsys = [r \in Roots |-> IF r = "one" THEN a ELSE b]
           /\ \E ex \in {None, Some(<<"X">>)}, rec \in BOOLEAN :
                dir_diff_options = [dir |-> "one", dir_comp |-> dc,
                                    excluding |-> ex, recursive_excluding |-> rec]
    /\ pc = "build_one"
    /\ outcome = "running"
    /\ reads = <<>>
    /\ tree_one = <<>> /\ tree_two = <<>>
    /\ content_one = <<>> /\ content_two = <<>>
    /\ NoFileDiff /\ NoTree /\ NoContent

BuildTreeOne ==
    /\ pc = "build_one"
    /\ tree_one' = build_tree(fsys, <<dir_diff_options.dir>>,
                              dir_diff_options.excluding,
                              dir_diff_options.recursive_excluding)
    /\ pc' = "build_two"
    /\ UNCHANGED <<fsys, outcome, reads, dir_diff_options, tree_two, content_one,
                   content_two, fileVars, treeVars, contentVars>>

BuildTreeTwo ==
    /\ pc = "build_two"
    /\ tree_two' = build_tree(fsys, <<dir_diff_options.dir_comp>>,
                              dir_diff_options.excluding,
                              dir_diff_options.recursive_excluding)
    /\ pc' = "tree_diff"
    /\ UNCHANGED <<fsys, outcome, reads, dir_diff_options, tree_one, content_one,
                   content_two, fileVars, treeVars, contentVars>>

\* TreeDiffStep without the early return: the contents are read in any case
TreeDiffStep_no_return ==
    /\ pc = "tree_diff"
    /\ outcome' = outcome /\ pc' = "content_one"
    /\ UNCHANGED <<fsys, reads, dirVars, fileVars, treeVars, contentVars>>

\* if Tree::tree_diff(tree_one.clone(), tree_two.clone()) { return true; }
TreeDiffStep ==
    /\ pc = "tree_diff"
    /\ IF tree_diff(tree_one, tree_two)
       THEN outcome' = "true" /\ pc' = "done"
       ELSE outcome' = outcome /\ pc' = "content_one"
    /\ UNCHANGED <<fsys, reads, dirVars, fileVars, treeVars, contentVars>>

ContentOne ==
    /\ pc = "content_one"
    /\ LET r == get_content_files(fsys, tree_one)
       IN  /\ reads' = reads \o r.reads
           /\ IF r.ok
              THEN content_one' = r.val /\ pc' = "content_two" /\ outcome' = outcome
              ELSE content_one' = content_one /\ pc' = "done" /\ outcome' = "panic"
    /\ UNCHANGED <<fsys, dir_diff_options, tree_one, tree_two, content_two,
                   fileVars, treeVars, contentVars>>

ContentTwo ==
    /\ pc = "content_two"
    /\ LET r == get_content_files(fsys, tree_two)
       IN  /\ reads' = reads \o r.reads
           /\ IF r.ok
              THEN content_two' = r.val /\ pc' = "compare" /\ outcome' = outcome
              ELSE content_two' = content_two /\ pc' = "done" /\ outcome' = "panic"
    /\ UNCHANGED <<fsys, dir_diff_options, tree_one, tree_two, content_one,
                   fileVars, treeVars, contentVars>>

\* CompareStep without the negation
CompareStep_not_negated ==
    /\ pc = "compare"
    /\ outcome' = Bool(compare_dir_content(content_one, content_two))
    /\ pc' = "done"
    /\ UNCHANGED <<fsys, reads, dirVars, fileVars, treeVars, contentVars>>

\* !Tree::compare_dir_content(content_one, content_two)
CompareStep ==
    /\ pc = "compare"
    /\ outcome' = Bool(~compare_dir_content(content_one, content_two))
    /\ pc' = "done"
    /\ UNCHANGED <<fsys, reads, dirVars, fileVars, treeVars, contentVars>>

dir_diff ==
    \/ BuildTreeOne
    \/ BuildTreeTwo
    \/ TreeDiffStep
    \/ ContentOne
    \/ ContentTwo
    \/ CompareStep


\* ------------------------------------- dir_diff on trees one entry apart
RECURSIVE FsEntries(_, _)
\* every entry below a listing: its names from the root, its kind, its index
FsEntries(es, prefix) ==
    UNION {
        {[path |-> Append(prefix, es[k].name), dir |-> es[k].dir, idx |-> k]}
            \cup (IF es[k].dir
                  THEN FsEntries(es[k].entries, Append(prefix, es[k].name))
                  ELSE {})
        : k \in 1..Len(es)}

RECURSIVE RemoveEntry(_, _)
\* the listing without the entry (and its subtree) a relative path names
RemoveEntry(es, rel) ==
    IF Len(rel) = 1
    THEN SelectSeq(es, LAMBDA e : e.name /= rel[1])
    ELSE [k \in 1..Len(es) |->
            IF es[k].name = rel[1] /\ es[k].dir
            THEN [es[k] EXCEPT !.entries = RemoveEntry(es[k].entries, Tail(rel))]
            ELSE es[k]]

Last(seq) == seq[Len(seq)]
\* the entries named X of a listing
EntriesNamedX(es) == {e \in FsEntries(es, <<>>) : Last(e.path) = "X"}

\* directory "two" is directory "one" without one entry named X (or a copy)
InitExclusion ==
    /\ \E a \in Forests(MaxExclNodes) :
         \E b \in {a} \cup {RemoveEntry(a, e.path) : e \in EntriesNamedX(a)} :
           /\ fsys = [r \in Roots |-> IF r = "one" THEN a ELSE b]
           /\ \E ex \in {None, Some(<<"X">>)}, rec \in BOOLEAN :
                dir_diff_options = [dir |-> "one", dir_comp |-> "two",
                                    excluding |-> ex, recursive_excluding |-> rec]
    /\ pc = "build_one"
    /\ outcome = "running"
    /\ reads = <<>>
    /\ tree_one = <<>> /\ tree_two = <<>>
    /\ content_one = <<>> /\ content_two = <<>>
    /\ NoFileDiff /\ NoTree /\ NoContent

SpecExclusion == InitExclusion /\ [][dir_diff]_vars

\* ------------------------------------------------ lib.rs: file_diff
\* the paths a caller can name: every entry of directory "one" and one
\* path that does not exist
FilePaths ==
    {<<"one">> \o e.path : e \in FsEntries(fsys["one"], <<>>)}
        \cup {<<"one", "missing">>}

InitFileDiff ==
    /\ \E a \in Forests(MaxNodes) : fsys = [r \in Roots |-> IF r = "one" THEN a ELSE <<>>]
    /\ \E f \in FilePaths, g \in FilePaths :
         file_diff_options = [file |-> f, file_comp |-> g]
    /\ file_one = "" /\ file_two = ""
    /\ pc = "read_one"
    /\ outcome = "running"
    /\ reads = <<>>
    /\ NoDirDiff /\ NoTree /\ NoContent

\* let file_one = fs::read_to_string(file_diff_options.file).await.unwrap();
ReadFileOne ==
    /\ pc = "read_one"
    /\ LET r == read_to_string(fsys, file_diff_options.file)
       IN  /\ reads' = Append(reads, file_diff_options.file)
           /\ IF r.ok
              THEN file_one' = r.val /\ pc' = "read_two" /\ outcome' = outcome
              ELSE file_one' = file_one /\ pc' = "done" /\ outcome' = "panic"
    /\ UNCHANGED <<fsys, file_diff_options, file_two, dirVars, treeVars, contentVars>>

\* let file_two = fs::read_to_string(file_diff_options.file_comp).await.unwrap();
ReadFileTwo ==
    /\ pc = "read_two"
    /\ LET r == read_to_string(fsys, file_diff_options.file_comp)
       IN  /\ reads' = Append(reads, file_diff_options.file_comp)
           /\ IF r.ok
              THEN file_two' = r.val /\ pc' = "file_compare" /\ outcome' = outcome
              ELSE file_two' = file_two /\ pc' = "done" /\ outcome' = "panic"
    /\ UNCHANGED <<fsys, file_diff_options, file_one, dirVars, treeVars, contentVars>>

\* FileCompare with the comparison inverted
FileCompare_eq ==
    /\ pc = "file_compare"
    /\ outcome' = Bool(file_one = file_two)
    /\ pc' = "done"
    /\ UNCHANGED <<fsys, reads, dirVars, fileVars, treeVars, contentVars>>

\* file_one != file_two
FileCompare ==
    /\ pc = "file_compare"
    /\ outcome' = Bool(file_one /= file_two)
    /\ pc' = "done"
    /\ UNCHANGED <<fsys, reads, dirVars, fileVars, treeVars, contentVars>>

file_diff ==
    \/ ReadFileOne
    \/ ReadFileTwo
    \/ FileCompare

SpecFile == InitFileDiff /\ [][file_diff]_vars

\* -------------------------------------------- tree.rs: Tree::tree_diff
\* listings whose files all hold the same readable text: only names and
\* file/directory shape vary
ShapeForests ==
    {f \in Forests(MaxTreeNodes) :
        \A e \in FsEntries(f, <<>>) :
            e.dir \/ read_to_string([r \in Roots |-> f], <<"one">> \o e.path).val = "hello"}
\* the trees build_tree returns for them, under either root
TreeVecs ==
    {build_tree([r \in Roots |-> f], <<root>>, None, FALSE) :
        f \in ShapeForests, root \in Roots}

InitTreeDiff ==
    /\ dir_tree \in TreeVecs
    /\ dir_tree_comp \in TreeVecs
    /\ file_list = <<>> /\ file_content = <<>>
    /\ fsys = [r \in Roots |-> <<>>]
    /\ pc = "tree_diff_call"
    /\ outcome = "running"
    /\ reads = <<>>
    /\ NoDirDiff /\ NoFileDiff /\ NoContent

TreeDiffCall ==
    /\ pc = "tree_diff_call"
    /\ outcome' = Bool(tree_diff(dir_tree, dir_tree_comp))
    /\ pc' = "done"
    /\ UNCHANGED <<fsys, reads, dirVars, fileVars, treeVars, contentVars>>

SpecTree == InitTreeDiff /\ [][TreeDiffCall]_vars

\* ------------------------------------ tree.rs: Tree::compare_dir_content
RECURSIVE SeqsUpTo(_, _)
SeqsUpTo(S, n) ==
    IF n = 0 THEN {<<>>}
    ELSE SeqsUpTo(S, n - 1)
            \cup {Append(q, x) : q \in {r \in SeqsUpTo(S, n - 1) : Len(r) = n - 1}, x \in S}

InitCompare ==
    /\ dir_content \in SeqsUpTo(ContentPool, MaxLen)
    /\ dir_content_comp \in SeqsUpTo(ContentPool, MaxLen)
    /\ fsys = [r \in Roots |-> <<>>]
    /\ pc = "compare_call"
    /\ outcome = "running"
    /\ reads = <<>>
    /\ NoDirDiff /\ NoFileDiff /\ NoTree

CompareCall ==
    /\ pc = "compare_call"
    /\ outcome' = Bool(compare_dir_content(dir_content, dir_content_comp))
    /\ pc' = "done"
    /\ UNCHANGED <<fsys, reads, dirVars, fileVars, treeVars, contentVars>>

SpecCompare == InitCompare /\ [][CompareCall]_vars

\* -------------------------------------- tree.rs: Tree::get_content_files
\* get_content_files on the tree build_tree returns for directory "one"
InitContent ==
    /\ \E a \in Forests(MaxFlatNodes) : fsys = [r \in Roots |-> IF r = "one" THEN a ELSE <<>>]
    /\ dir_tree = build_tree(fsys, <<"one">>, None, FALSE)
    /\ dir_tree_comp = <<>>
    /\ file_list = <<>> /\ file_content = <<>>
    /\ pc = "flatten"
    /\ outcome = "running"
    /\ reads = <<>>
    /\ NoDirDiff /\ NoFileDiff /\ NoContent

\* let file_list: TreeFlatted = TreeFlatted::from_iter(dir_tree);
FromIter ==
    /\ pc = "flatten"
    /\ file_list' = from_iter(dir_tree)
    /\ pc' = "read"
    /\ UNCHANGED <<fsys, outcome, reads, dir_tree, dir_tree_comp, file_content,
                   dirVars, fileVars, contentVars>>

\* one step of files.then(|file| read_to_string(file.path).await.unwrap()):
\* the stream polls the next file only when the read before it has completed
ReadNext ==
    /\ pc = "read"
    /\ Len(file_content) < Len(file_list)
    /\ LET file == file_list[Len(file_content) + 1]
           r == read_to_string(fsys, file.path)
       IN  /\ reads' = Append(reads, file.path)
           /\ IF r.ok
              THEN file_content' = Append(file_content, r.val)
                   /\ pc' = pc /\ outcome' = outcome
              ELSE file_content' = file_content
                   /\ pc' = "done" /\ outcome' = "panic"
    /\ UNCHANGED <<fsys, dir_tree, dir_tree_comp, file_list, dirVars, fileVars,
                   contentVars>>

\* .collect::<Vec<String>>().await; file_content
Collect ==
    /\ pc = "read"
    /\ Len(file_content) = Len(file_list)
    /\ outcome' = "ok"
    /\ pc' = "done"
    /\ UNCHANGED <<fsys, reads, dirVars, fileVars, treeVars, contentVars>>

get_content_files_steps ==
    \/ FromIter
    \/ ReadNext
    \/ Collect

SpecContent == InitContent /\ [][get_content_files_steps]_vars

Init == InitDirDiff
Next == dir_diff
Spec == Init /\ [][Next]_vars


\* ------------------------------------------------ what the claims speak of
RECURSIVE TreeNodes(_, _)
\* every entry of a built tree with its position (the indices from the root)
TreeNodes(vec, prefix) ==
    UNION {
        {[pos |-> Append(prefix, k), name |-> vec[k].name,
          path |-> vec[k].path, dir |-> vec[k].subdir.some]}
            \cup (IF vec[k].subdir.some
                  THEN TreeNodes(vec[k].subdir.list, Append(prefix, k))
                  ELSE {})
        : k \in 1..Len(vec)}

\* names and file/directory shape at every position, paths left out
Shape(vec) ==
    {[pos |-> n.pos, name |-> n.name, dir |-> n.dir] : n \in TreeNodes(vec, <<>>)}
StructurallyEqual(ta, tb) == Shape(ta) = Shape(tb)

Leaves(vec) == {n \in TreeNodes(vec, <<>>) : ~n.dir}
UnreadableLeaf(vec) == \E n \in Leaves(vec) : ~read_to_string(fsys, n.path).ok
ContentSet(vec) == {read_to_string(fsys, n.path).val : n \in Leaves(vec)}
\* some pair of leaves at the same position holds different text
CorrespondingLeavesDiffer(ta, tb) ==
    \E n \in Leaves(ta), m \in Leaves(tb) :
        /\ n.pos = m.pos
        /\ read_to_string(fsys, n.path).val /= read_to_string(fsys, m.path).val

Done == pc = "done"
BothReadable == ~UnreadableLeaf(tree_one) /\ ~UnreadableLeaf(tree_two)

\* C1: when the two built trees differ structurally, dir_diff returns true and
\* has read no file, whether or not their leaf files are readable.
C1_ShortCircuit ==
    (Done /\ ~StructurallyEqual(tree_one, tree_two))
        => (outcome = "true" /\ reads = <<>>)
C1_Witness ==
    /\ Done /\ ~StructurallyEqual(tree_one, tree_two)
    /\ UnreadableLeaf(tree_one) /\ UnreadableLeaf(tree_two)
    /\ outcome = "true"

\* C2: structurally identical trees (all leaves readable) in which a pair of
\* corresponding leaf files differs in content make dir_diff return true.
C2_ContentSensitivity ==
    (Done /\ StructurallyEqual(tree_one, tree_two) /\ BothReadable
          /\ CorrespondingLeavesDiffer(tree_one, tree_two))
        => outcome = "true"

\* C3 as claimed: any unreadable leaf file in either tree makes dir_diff fail.
C3_NoPartialSuccess ==
    (Done /\ (UnreadableLeaf(tree_one) \/ UnreadableLeaf(tree_two)))
        => outcome = "panic"
\* C3: dir_diff fails exactly when the built trees are structurally equal and
\* a leaf file of either built tree cannot be read.
C3_FailsWhenContentIsRead ==
    Done => (outcome = "panic"
                <=> /\ StructurallyEqual(tree_one, tree_two)
                    /\ (UnreadableLeaf(tree_one) \/ UnreadableLeaf(tree_two)))
C3_Witness ==
    /\ Done /\ outcome = "panic"
    /\ ~UnreadableLeaf(tree_one) /\ UnreadableLeaf(tree_two)
    /\ Cardinality(Leaves(tree_two)) >= 2

\* C4: dir_diff(X, X) without exclusions is false for a tree X whose leaf
\* files are all readable.
C4_Reflexivity ==
    (/\ Done
     /\ fsys[dir_diff_options.dir] = fsys[dir_diff_options.dir_comp]
     /\ dir_diff_options.excluding = None
     /\ ~dir_diff_options.recursive_excluding
     /\ BothReadable)
        => outcome = "false"
C4_Witness ==
    /\ Done
    /\ dir_diff_options.dir = dir_diff_options.dir_comp
    /\ dir_diff_options.excluding = None
    /\ ~dir_diff_options.recursive_excluding
    /\ BothReadable
    /\ Cardinality(ContentSet(tree_one)) >= 2
    /\ outcome = "false"

ExcludeList ==
    IF dir_diff_options.excluding.some THEN dir_diff_options.excluding.list ELSE <<>>
\* the scoping rule: the name of a direct child of the root is looked up in the
\* exclusion set, the names below it only when exclusion is recursive
Kept(path) ==
    /\ ~Contains(ExcludeList, path[1])
    /\ dir_diff_options.recursive_excluding
          => \A k \in 1..Len(path) : ~Contains(ExcludeList, path[k])
KeptEntries(root) ==
    {[path |-> e.path, dir |-> e.dir] :
        e \in {x \in FsEntries(fsys[root], <<>>) : Kept(x.path)}}
BuiltEntries(tree) ==
    {[path |-> Tail(n.path), dir |-> n.dir] : n \in TreeNodes(tree, <<>>)}
FsIndex(root, rel) == (CHOOSE e \in FsEntries(fsys[root], <<>>) : e.path = rel).idx
Parent(pos) == SubSeq(pos, 1, Len(pos) - 1)
\* siblings of the built tree stand in the order of the directory listing
InListingOrder(tree, root) ==
    \A n \in TreeNodes(tree, <<>>), m \in TreeNodes(tree, <<>>) :
        (Parent(n.pos) = Parent(m.pos) /\ Last(n.pos) < Last(m.pos))
            => FsIndex(root, Tail(n.path)) < FsIndex(root, Tail(m.path))
BuiltAsScoped(tree, root) ==
    /\ BuiltEntries(tree) = KeptEntries(root)
    /\ InListingOrder(tree, root)
    /\ \A n \in TreeNodes(tree, <<>>) : n.path[1] = root /\ Last(n.path) = n.name
BuildTreeScoping ==
    /\ pc /= "build_one" => BuiltAsScoped(tree_one, dir_diff_options.dir)
    /\ pc \notin {"build_one", "build_two"}
          => BuiltAsScoped(tree_two, dir_diff_options.dir_comp)

\* the entries named X whose removal from directory "one" gives directory "two"
Mismatch ==
    {e \in EntriesNamedX(fsys["one"]) : RemoveEntry(fsys["one"], e.path) = fsys["two"]}

Range(seq) == {seq[i] : i \in 1..Len(seq)}

Unpathed(vec) == [k \in 1..Len(vec) |-> TreeComp_from(vec[k])]
\* the same entries, listed the other way round
Reversed(va, vb) ==
    /\ Len(va) = Len(vb) /\ Len(va) >= 2
    /\ \A k \in 1..Len(va) : Unpathed(va)[k] = Unpathed(vb)[Len(vb) + 1 - k]
\* a file at the place of an empty directory of the same name
FileForEmptyDir(va, vb) ==
    /\ Len(va) = 1 /\ Len(vb) = 1 /\ va[1].name = vb[1].name
    /\ va[1].subdir = None /\ vb[1].subdir = Some(<<>>)

\* C7: tree_diff(A, B) is false exactly when A and B have the same names and
\* the same file/directory shape at every position, whatever the paths; a file
\* differs from an empty directory, and a reversed listing differs.
C7_StructuralEquality ==
    Done =>
        /\ outcome = "false" <=> Shape(dir_tree) = Shape(dir_tree_comp)
        /\ Reversed(dir_tree, dir_tree_comp) => outcome = "true"
        /\ FileForEmptyDir(dir_tree, dir_tree_comp) => outcome = "true"
C7_Witness ==
    /\ Done /\ outcome = "false"
    /\ dir_tree /= dir_tree_comp
    /\ \E n \in TreeNodes(dir_tree, <<>>) : n.dir /\ Len(n.pos) = 2

\* --------------------------------------------------------- C8: file_diff
\* C8: file_diff is true iff the two texts differ when both files can be read
\* (false for P, P) and fails when either cannot be read.
C8_FileDiff ==
    Done =>
        LET a == read_to_string(fsys, file_diff_options.file)
            b == read_to_string(fsys, file_diff_options.file_comp)
        IN  /\ (a.ok /\ b.ok) => (outcome = "true" <=> a.val /= b.val)
            /\ (a.ok /\ b.ok) => outcome \in {"true", "false"}
            /\ (a.ok /\ file_diff_options.file = file_diff_options.file_comp)
                  => outcome = "false"
            /\ (~a.ok \/ ~b.ok) => outcome = "panic"
C8_Witness ==
    /\ Done /\ outcome = "true"
    /\ file_diff_options.file /= file_diff_options.file_comp
    /\ reads = <<file_diff_options.file, file_diff_options.file_comp>>

\* ------------------------------------------------- C9: get_content_files
LeafOf(path) == CHOOSE n \in Leaves(dir_tree) : n.path = path
\* depth-first order of two positions neither of which is above the other
DfsBefore(p, q) ==
    \E k \in 1..Len(p) :
        /\ k <= Len(q) /\ p[k] < q[k]
        /\ \A j \in 1..(k - 1) : p[j] = q[j]

\* C9: the flattened list holds each file entry once and no directory, depth
\* first in stored order; the i-th content is the text of the i-th leaf.
C9_LeafOrder ==
    /\ pc /= "flatten" =>
        /\ Len(file_list) = Cardinality(Leaves(dir_tree))
        /\ \A i \in 1..Len(file_list) :
             \E n \in Leaves(dir_tree) :
                n.path = file_list[i].path /\ n.name = file_list[i].name
        /\ \A i \in 1..Len(file_list), j \in 1..Len(file_list) :
             i < j => DfsBefore(LeafOf(file_list[i].path).pos,
                                LeafOf(file_list[j].path).pos)
        /\ Len(file_content) <= Len(file_list)
        /\ \A i \in 1..Len(file_content) :
             LET r == read_to_string(fsys, file_list[i].path)
             IN  r.ok /\ file_content[i] = r.val
    /\ (Done /\ outcome = "ok") =>
        /\ Len(file_content) = Len(file_list)
        /\ reads = [i \in 1..Len(file_list) |-> file_list[i].path]
        /\ get_content_files(fsys, dir_tree) =
              [ok |-> TRUE, val |-> file_content, reads |-> reads]
    /\ (Done /\ outcome = "panic") => ~get_content_files(fsys, dir_tree).ok
\* a leaf below a directory comes before the leaf that is the directory's
\* later sibling
C9_Witness ==
    /\ Done /\ outcome = "ok"
    /\ Len(file_content) = 2 /\ file_content[1] /= file_content[2]
    /\ Len(file_list[1].path) > Len(file_list[2].path)
    /\ Cardinality(TreeNodes(dir_tree, <<>>)) = 3

====
